---- MODULE Spec2Model ----
(***************************************************************************)
(* The class-based Result<T, E> and Option<T> wrappers of optionals        *)
(* (src/result.ts and src/option.ts, both carried in                       *)
(* src/src/tests/result.test.ts after the tests), as a state machine over  *)
(* a heap of JavaScript objects.                                           *)
(*                                                                         *)
(* A JavaScript value is a record [t, n, s]: t is its kind, n a number, a  *)
(* symbol's identity or an object's heap address, s a string's text as a   *)
(* sequence of tokens (a token is a newline, a tab, or a chunk of text     *)
(* holding neither).  Every operation of the library is an operator from   *)
(* the heap and its arguments to a completion: the heap afterwards and     *)
(* either the value returned or the value thrown.                          *)
(***************************************************************************)
EXTENDS Integers, Sequences, FiniteSets, TLC

VARIABLES heap, last, tasks

vars == <<heap, last, tasks>>

-----------------------------------------------------------------------------
(* JavaScript values *)

JSV(t, n, s) == [t |-> t, n |-> n, s |-> s]

Undefined == JSV("undefined", 0, <<>>)
Null      == JSV("null", 0, <<>>)
Num(n)    == JSV("number", n, <<>>)
Str(s)    == JSV("string", 0, s)
Bool(b)   == JSV("boolean", IF b THEN 1 ELSE 0, <<>>)
Sym(n)    == JSV("symbol", n, <<>>)
Ref(a)    == JSV("object", a, <<>>)

True  == Bool(TRUE)
False == Bool(FALSE)

\* export const none = Symbol("None")
none == Sym(0)

\* Another symbol with the same description: Symbol("None") called a second time.
fakeNone == Sym(1)

\* typeof v
TypeOf(v) == IF v.t = "null" THEN "object" ELSE v.t

\* ToBoolean(v): undefined, null, 0, "" and false are falsy.
Truthy(v) ==
    CASE v.t = "undefined" -> FALSE
      [] v.t = "null"      -> FALSE
      [] v.t = "number"    -> v.n # 0
      [] v.t = "string"    -> v.s # <<>>
      [] v.t = "boolean"   -> v.n = 1
      [] OTHER             -> TRUE

\* a || b, a && b, !a : the operand itself is the result, not its truth value.
JsOr(a, b)  == IF Truthy(a) THEN a ELSE b
JsAnd(a, b) == IF Truthy(a) THEN b ELSE a
JsNot(a)    == Bool(~Truthy(a))

IsBoolean(v) == v.t = "boolean"

-----------------------------------------------------------------------------
(* Objects.  Every object has a class; a wrapper has a val slot, an error  *)
(* has name, message and stack (Undefined where the property is absent).   *)

Obj(cls, val, name, message, stack) ==
    [cls |-> cls, val |-> val, name |-> name, message |-> message, stack |-> stack]

NewResult(input) == Obj("Result", input, Undefined, Undefined, Undefined)
NewOption(input) == Obj("Option", input, Undefined, Undefined, Undefined)

\* The prototype chain of an object of each class.  "Error" (the constructor
\* function itself) differs from "Error.prototype".
ProtoChain(cls) ==
    CASE cls = "Error"          -> {"Error.prototype", "Object.prototype"}
      [] cls = "TestError"      -> {"TestError.prototype", "Error.prototype", "Object.prototype"}
      [] cls = "TypeError"      -> {"TypeError.prototype", "Error.prototype", "Object.prototype"}
      [] cls = "ErrorLookAlike" -> {"ErrorLookAlike.prototype", "Object.prototype"}
      [] cls = "ErrorChild"     -> {"Error", "Function.prototype", "Object.prototype"}
      [] cls = "Result"         -> {"Result.prototype", "Object.prototype"}
      [] cls = "Option"         -> {"Option.prototype", "Object.prototype"}
      [] OTHER                  -> {"Object.prototype"}

IsObject(h, v) == v.t = "object" /\ v.n \in DOMAIN h

\* v instanceof Error
InstanceofError(h, v) == IsObject(h, v) /\ "Error.prototype" \in ProtoChain(h[v.n].cls)

\* Error.isPrototypeOf(v): the function Error is on v's prototype chain.
ErrorIsPrototypeOf(h, v) == IsObject(h, v) /\ "Error" \in ProtoChain(h[v.n].cls)

IsResult(h, v) == IsObject(h, v) /\ h[v.n].cls = "Result"
IsOption(h, v) == IsObject(h, v) /\ h[v.n].cls = "Option"

\* v.name, v.message, v.stack for a value that is not null or undefined.
GetProp(h, v, p) ==
    IF IsObject(h, v)
    THEN CASE p = "name"    -> h[v.n].name
           [] p = "message" -> h[v.n].message
           [] p = "stack"   -> h[v.n].stack
    ELSE Undefined

-----------------------------------------------------------------------------
(* Strings *)

NL  == "\n"
TAB == "\t"

\* A variant of the indentation that leaves the lines where they start.
IndentLines_Flat(s) == s

\* s.split("\n").join("\n\t"): every newline is followed by a tab.
RECURSIVE IndentLines(_)
IndentLines(s) ==
    IF s = <<>> THEN <<>>
    ELSE IF Head(s) = NL THEN <<NL, TAB>> \o IndentLines(Tail(s))
    ELSE <<Head(s)>> \o IndentLines(Tail(s))

\* The text a template literal gives for a value; a symbol has none (TypeError).
CanToString(v) == v.t # "symbol"

ToStringTag(cls) ==
    CASE cls = "Result" -> <<"[object Result]">>
      [] cls = "Option" -> <<"[object Option]">>
      [] OTHER          -> <<"[object Object]">>

\* Error.prototype.toString: name, or name + ": " + message.
ErrorToString(o) ==
    LET nm == IF o.name.t = "string" THEN o.name.s ELSE <<"Error">>
        ms == IF o.message.t = "string" THEN o.message.s ELSE <<>>
    IN IF ms = <<>> THEN nm ELSE IF nm = <<>> THEN ms ELSE nm \o <<": ">> \o ms

JsToString(h, v) ==
    CASE v.t = "undefined" -> <<"undefined">>
      [] v.t = "null"      -> <<"null">>
      [] v.t = "number"    -> IF v.n = 0 THEN <<"0">> ELSE <<"1">>
      [] v.t = "boolean"   -> IF v.n = 1 THEN <<"true">> ELSE <<"false">>
      [] v.t = "string"    -> v.s
      [] v.t = "object"    ->
            IF InstanceofError(h, v) THEN ErrorToString(h[v.n])
            ELSE ToStringTag(h[v.n].cls)
      [] OTHER             -> <<>>

\* new Error(msg): the engine captures a stack headed by the error's text.
NewError(msg) ==
    Obj("Error", Undefined, Str(<<"Error">>), Str(msg),
        Str((IF msg = <<>> THEN <<"Error">> ELSE <<"Error", ": ">> \o msg)
            \o <<NL, "    at <anonymous>">>))

\* The TypeError the engine throws for a property of null or undefined, or a
\* symbol in a template literal.
NewTypeError ==
    Obj("TypeError", Undefined, Str(<<"TypeError">>), Str(<<"TypeError">>),
        Str(<<"TypeError", ": ", "TypeError", NL, "    at <anonymous>">>))

-----------------------------------------------------------------------------
(* Completions: how a call ends.  threw = FALSE: val is the value returned. *)
(* threw = TRUE: val is the value thrown; an error object created by the    *)
(* call and thrown at once is held in exc and val is InFlight, since only   *)
(* the caller that catches it can reach it.  calls lists the arguments the  *)
(* caller-supplied function was invoked with, items what an iteration       *)
(* yielded, ok and err the two lists of a partition.                        *)

InFlight == Ref(0)

NoObj == Obj("none", Undefined, Undefined, Undefined, Undefined)

Completion(h, threw, val, exc, calls, items, ok, err) ==
    [heap |-> h, threw |-> threw, val |-> val, exc |-> exc, calls |-> calls,
     items |-> items, ok |-> ok, err |-> err]

Return(h, v)          == Completion(h, FALSE, v, NoObj, <<>>, <<>>, <<>>, <<>>)
ReturnCalled(h, v, c) == Completion(h, FALSE, v, NoObj, c, <<>>, <<>>, <<>>)
Throw(h, v)           == Completion(h, TRUE, v, NoObj, <<>>, <<>>, <<>>, <<>>)
ThrowCalled(h, v, c)  == Completion(h, TRUE, v, NoObj, c, <<>>, <<>>, <<>>)
ThrowNew(h, o)        == Completion(h, TRUE, InFlight, o, <<>>, <<>>, <<>>, <<>>)

\* new C(...): the object is appended to the heap and its address returned.
Alloc(h, o)          == Return(Append(h, o), Ref(Len(h) + 1))
AllocCalled(h, o, c) == ReturnCalled(Append(h, o), Ref(Len(h) + 1), c)

-----------------------------------------------------------------------------
(* Caller-supplied functions: a closure that returns a fixed value, returns *)
(* its argument, or throws a fixed value.                                   *)

FnConst(v) == [k |-> "const", v |-> v]
FnThrow(v) == [k |-> "throw", v |-> v]
FnId       == [k |-> "id", v |-> Undefined]

\* fn(arg): [threw, val]
CallFn(fn, arg) ==
    CASE fn.k = "const" -> [threw |-> FALSE, val |-> fn.v]
      [] fn.k = "id"    -> [threw |-> FALSE, val |-> arg]
      [] OTHER          -> [threw |-> TRUE, val |-> fn.v]

-----------------------------------------------------------------------------
(* Asynchronous functions, and the promise an async adapter returns.  An    *)
(* asynchronous function returns a promise that later fulfils with a value  *)
(* or rejects with one, or it throws before it returns any promise.  A task *)
(* is one call of fromAsync: awaited is the state of the promise fn()       *)
(* returned, state and val those of the promise fromAsync returned.         *)

AsyncResolve(v) == [k |-> "resolve", v |-> v]
AsyncReject(v)  == [k |-> "reject", v |-> v]
AsyncThrow(v)   == [k |-> "throw", v |-> v]

Task(of, fn, awaited, state, val) ==
    [of |-> of, fn |-> fn, awaited |-> awaited, state |-> state, val |-> val]

\* The call of an async adapter up to its `await fn()`.
Awaiting(h, of, fn) == [heap |-> h, task |-> Task(of, fn, "pending", "pending", Undefined)]

\* `return v` in an async function: the promise it returned fulfils with v.
Fulfilled(h, t, v) == [heap |-> h, task |-> [t EXCEPT !.state = "fulfilled", !.val = v]]

\* An exception leaving an async function: the promise it returned rejects.
Rejected(h, t, v) == [heap |-> h, task |-> [t EXCEPT !.state = "rejected", !.val = v]]

-----------------------------------------------------------------------------
(* class Result<T, E extends Error>; self is the address of the instance.  *)

\* A variant of isErr() that recognises an error by its shape: any object
\* with a message.
Result_isErr_ByShape(h, self) ==
    LET val == h[self].val
    IN Bool(InstanceofError(h, val)
            \/ (IsObject(h, val) /\ h[val.n].message.t = "string"))

\* isErr(): val instanceof Error || (val && typeof val === "object" && Error.isPrototypeOf(val))
Result_isErr(h, self) ==
    LET val == h[self].val
    IN JsOr(Bool(InstanceofError(h, val)),
            JsAnd(val, JsAnd(Bool(TypeOf(val) = "object"),
                             Bool(ErrorIsPrototypeOf(h, val)))))

\* A variant of isOk() that only knows Error itself, not the classes that
\* extend it.
Result_isOk_ExactClass(h, self) ==
    LET val == h[self].val
    IN Bool(~(IsObject(h, val) /\ h[val.n].cls = "Error"))

\* isOk(): !( the same expression )
Result_isOk(h, self) ==
    LET val == h[self].val
    IN JsNot(JsOr(Bool(InstanceofError(h, val)),
                  JsAnd(val, JsAnd(Bool(TypeOf(val) = "object"),
                                   Bool(ErrorIsPrototypeOf(h, val))))))

\* A variant of formatError that throws err as it was made, without the
\* original error in its stack.
Result_formatError_NoChain(h, self, err) ==
    IF h[self].val.t \in {"undefined", "null"} THEN ThrowNew(h, NewTypeError)
    ELSE ThrowNew(h, err)

\* formatError(err): sets err.stack from this.val and throws err.  Reading
\* .stack of undefined or null, or a symbol in the template, is a TypeError.
Result_formatError(h, self, err) ==
    LET val == h[self].val
        stack == GetProp(h, val, "stack")
        message == GetProp(h, val, "message")
    IN IF val.t \in {"undefined", "null"} THEN ThrowNew(h, NewTypeError)
       ELSE IF Truthy(stack)
       THEN ThrowNew(h, [err EXCEPT !.stack =
                Str(err.message.s \o <<": ">> \o <<NL, TAB>> \o IndentLines(stack.s))])
       ELSE IF ~CanToString(message) THEN ThrowNew(h, NewTypeError)
       ELSE ThrowNew(h, [err EXCEPT !.stack =
                Str(err.message.s \o <<": ">> \o JsToString(h, message))])

\* expect(msg)
Result_expect(h, self, msg) ==
    IF Truthy(Result_isErr(h, self))
    THEN Result_formatError(h, self, NewError(msg.s))
    ELSE Return(h, h[self].val)

\* expectErr(msg)
Result_expectErr(h, self, msg) ==
    IF Truthy(Result_isOk(h, self))
    THEN Result_formatError(h, self, NewError(msg.s))
    ELSE Return(h, h[self].val)

\* unwrap()
Result_unwrap(h, self) ==
    LET val == h[self].val
        name == GetProp(h, val, "name")
    IN IF Truthy(Result_isErr(h, self))
       THEN IF ~CanToString(name) THEN ThrowNew(h, NewTypeError)
            ELSE Result_formatError(h, self,
                    NewError(<<"Unwrap called on ">> \o JsToString(h, name)))
       ELSE Return(h, val)

\* unwrapErr()
Result_unwrapErr(h, self) ==
    LET val == h[self].val
    IN IF Truthy(Result_isOk(h, self))
       THEN IF ~CanToString(val) THEN ThrowNew(h, NewTypeError)
            ELSE ThrowNew(h, NewError(<<"UnwrapError called on value - ">>
                                      \o JsToString(h, val)))
       ELSE Return(h, val)

\* unwrapOr(fallback)
Result_unwrapOr(h, self, fallback) ==
    IF Truthy(Result_isErr(h, self)) THEN Return(h, fallback)
    ELSE Return(h, h[self].val)

\* A variant of unwrapOrElse that calls fn without the error.
Result_unwrapOrElse_NoArg(h, self, fn) ==
    LET r == CallFn(fn, Undefined)
    IN IF Truthy(Result_isErr(h, self))
       THEN IF r.threw THEN ThrowCalled(h, r.val, <<Undefined>>)
            ELSE ReturnCalled(h, r.val, <<Undefined>>)
       ELSE Return(h, h[self].val)

\* unwrapOrElse(fn)
Result_unwrapOrElse(h, self, fn) ==
    LET val == h[self].val
        r == CallFn(fn, val)
    IN IF Truthy(Result_isErr(h, self))
       THEN IF r.threw THEN ThrowCalled(h, r.val, <<val>>)
            ELSE ReturnCalled(h, r.val, <<val>>)
       ELSE Return(h, val)

\* A variant of map that writes the mapped value into the receiver.
Result_map_InPlace(h, self, fn) ==
    LET val == h[self].val
        r == CallFn(fn, val)
    IN IF Truthy(Result_isOk(h, self))
       THEN IF r.threw THEN ThrowCalled(h, r.val, <<val>>)
            ELSE ReturnCalled([h EXCEPT ![self].val = r.val], Ref(self), <<val>>)
       ELSE Return(h, Ref(self))

\* A variant of map that applies fn to an error payload too.
Result_map_Always(h, self, fn) ==
    LET val == h[self].val
        r == CallFn(fn, val)
    IN IF r.threw THEN ThrowCalled(h, r.val, <<val>>)
       ELSE AllocCalled(h, NewResult(r.val), <<val>>)

\* map(fn)
Result_map(h, self, fn) ==
    LET val == h[self].val
        r == CallFn(fn, val)
    IN IF Truthy(Result_isOk(h, self))
       THEN IF r.threw THEN ThrowCalled(h, r.val, <<val>>)
            ELSE AllocCalled(h, NewResult(r.val), <<val>>)
       ELSE Return(h, Ref(self))

\* mapErr(fn)
Result_mapErr(h, self, fn) ==
    LET val == h[self].val
        r == CallFn(fn, val)
    IN IF Truthy(Result_isOk(h, self))
       THEN Return(h, Ref(self))
       ELSE IF r.threw THEN ThrowCalled(h, r.val, <<val>>)
            ELSE AllocCalled(h, NewResult(r.val), <<val>>)

\* A variant of mapOr that wraps what fn returns, as map does.
Result_mapOr_Wrapped(h, self, fallback, fn) ==
    LET val == h[self].val
        r == CallFn(fn, val)
    IN IF Truthy(Result_isOk(h, self))
       THEN IF r.threw THEN ThrowCalled(h, r.val, <<val>>)
            ELSE AllocCalled(h, NewResult(r.val), <<val>>)
       ELSE Return(h, fallback)

\* mapOr(fallback, fn)
Result_mapOr(h, self, fallback, fn) ==
    LET val == h[self].val
        r == CallFn(fn, val)
    IN IF Truthy(Result_isOk(h, self))
       THEN IF r.threw THEN ThrowCalled(h, r.val, <<val>>)
            ELSE ReturnCalled(h, r.val, <<val>>)
       ELSE Return(h, fallback)

\* A variant of or with the branches the wrong way round.
Result_or_Swapped(h, self, or) ==
    IF Truthy(Result_isOk(h, self)) THEN Return(h, or)
    ELSE Return(h, Ref(self))

\* or(or)
Result_or(h, self, or) ==
    IF Truthy(Result_isOk(h, self)) THEN Return(h, Ref(self))
    ELSE Return(h, or)

\* A variant of peek that unwraps.
Result_peek_Unwrapping(h, self) == Result_unwrap(h, self)

\* peek()
Result_peek(h, self) == Return(h, h[self].val)

\* A variant of throw that raises a new Error made from the contained one.
Result_throw_Wrapped(h, self) ==
    IF Truthy(Result_isErr(h, self))
    THEN ThrowNew(h, NewError(JsToString(h, h[self].val)))
    ELSE Return(h, Undefined)

\* throw()
Result_throw(h, self) ==
    IF Truthy(Result_isErr(h, self)) THEN Throw(h, h[self].val)
    ELSE Return(h, Undefined)

\* *[Symbol.iterator](): everything the generator yields before it is done.
Result_iterator(h, self) ==
    [Return(h, Undefined) EXCEPT !.items =
        IF Truthy(Result_isOk(h, self)) THEN <<h[self].val>> ELSE <<>>]

\* ok(): the Option of the payload if Ok, an Option of none if Err.  The method
\* is called by src/tests/result.test.ts:226-235 and is not defined in the
\* class; this is its documented behaviour.
Result_ok(h, self) ==
    IF Truthy(Result_isOk(h, self)) THEN Alloc(h, NewOption(h[self].val))
    ELSE Alloc(h, NewOption(none))

\* flatten(): the payload if it is itself a Result, the receiver otherwise.
\* The method is called by src/tests/result.test.ts:237-240 and is not defined
\* in the class; this is its documented behaviour, in the form of
\* Option.flatten.
Result_flatten(h, self) ==
    IF IsResult(h, h[self].val) THEN Return(h, h[self].val)
    ELSE Return(h, Ref(self))

\* new Result(input)
Result_new(h, input) == Alloc(h, NewResult(input))

\* Result.from(fn)
Result_from(h, fn) ==
    LET r == CallFn(fn, Undefined)
    IN IF r.threw THEN AllocCalled(h, NewResult(r.val), <<Undefined>>)
       ELSE AllocCalled(h, NewResult(r.val), <<Undefined>>)

\* Result.fromAsync(fn) up to the await: fn() is called inside the try, so
\* what it throws is caught and wrapped at once.
Result_fromAsync(h, fn) ==
    IF fn.k = "throw"
    THEN Fulfilled(Append(h, NewResult(fn.v)),
                   Task("Result", fn, "none", "pending", Undefined), Ref(Len(h) + 1))
    ELSE Awaiting(h, "Result", fn)

\* Result.fromAsync(fn) from the await on: the value the promise fulfilled
\* with is wrapped, and so is the reason it rejected with (the catch).
Result_fromAsync_resumed(h, t) ==
    Fulfilled(Append(h, NewResult(t.fn.v)), t, Ref(Len(h) + 1))

\* Ok(input?)
Ok(h, input) == Alloc(h, NewResult(input))

\* Ok[Symbol.hasInstance](instance), what `instance instanceof Ok` calls:
\* false for a primitive; null?.isOk() is undefined, so false; an object
\* without the method makes the call a TypeError.
Ok_hasInstance(h, instance) ==
    IF TypeOf(instance) # "object" THEN Return(h, False)
    ELSE IF instance = Null THEN Return(h, JsOr(Undefined, False))
    ELSE IF IsResult(h, instance) THEN Return(h, JsOr(Result_isOk(h, instance.n), False))
    ELSE ThrowNew(h, NewTypeError)

\* A variant of Err that stores a string as it is.
Err_NoCoerce(h, input) == Alloc(h, NewResult(input))

\* Err(input)
Err(h, input) ==
    IF TypeOf(input) = "string"
    THEN Return(Append(Append(h, NewError(input.s)), NewResult(Ref(Len(h) + 1))),
                Ref(Len(h) + 2))
    ELSE Alloc(h, NewResult(input))

\* Err[Symbol.hasInstance](instance)
Err_hasInstance(h, instance) ==
    IF TypeOf(instance) # "object" THEN Return(h, False)
    ELSE IF instance = Null THEN Return(h, JsOr(Undefined, False))
    ELSE IF IsResult(h, instance) THEN Return(h, JsOr(Result_isErr(h, instance.n), False))
    ELSE ThrowNew(h, NewTypeError)

\* Result.partition(input): reduce from the left; each element's unwrap() or
\* unwrapErr() is pushed, and the first one that throws ends the reduction.
RECURSIVE PartitionFrom(_, _, _, _)
PartitionFrom(h, input, ok, err) ==
    IF input = <<>>
    THEN [Return(h, Undefined) EXCEPT !.ok = ok, !.err = err]
    ELSE LET e == Head(input).n
             r == IF Truthy(Result_isOk(h, e)) THEN Result_unwrap(h, e)
                  ELSE Result_unwrapErr(h, e)
         IN IF r.threw THEN r
            ELSE IF Truthy(Result_isOk(h, e))
                 THEN PartitionFrom(h, Tail(input), Append(ok, r.val), err)
                 ELSE PartitionFrom(h, Tail(input), ok, Append(err, r.val))

\* A variant of partition that puts each element at the front of its list
\* (unshift for push), so that both lists come out reversed.
Result_partition_Unshift(h, input) ==
    LET c == PartitionFrom(h, input, <<>>, <<>>)
    IN [c EXCEPT !.ok = [i \in 1..Len(c.ok) |-> c.ok[Len(c.ok) + 1 - i]],
                 !.err = [i \in 1..Len(c.err) |-> c.err[Len(c.err) + 1 - i]]]

Result_partition(h, input) == PartitionFrom(h, input, <<>>, <<>>)

-----------------------------------------------------------------------------
(* class Option<T> *)

\* A variant of isSome() that takes a falsy payload for absence.
Option_isSome_Truthy(h, self) == Bool(Truthy(h[self].val) /\ h[self].val # none)

\* isSome(): this.val !== none
Option_isSome(h, self) == Bool(h[self].val # none)

\* A variant of isNone() that takes any symbol for the absence token.
Option_isNone_AnySymbol(h, self) == Bool(h[self].val.t = "symbol")

\* isNone(): this.val === none
Option_isNone(h, self) == Bool(h[self].val = none)

\* expect(msg)
Option_expect(h, self, msg) ==
    IF Truthy(Option_isNone(h, self)) THEN ThrowNew(h, NewError(msg.s))
    ELSE Return(h, h[self].val)

\* unwrap()
Option_unwrap(h, self) ==
    IF Truthy(Option_isNone(h, self))
    THEN ThrowNew(h, NewError(<<"Unwrap called on None">>))
    ELSE Return(h, h[self].val)

\* unwrapOr(fallback)
Option_unwrapOr(h, self, fallback) ==
    IF Truthy(Option_isNone(h, self)) THEN Return(h, fallback)
    ELSE Return(h, h[self].val)

\* unwrapOrElse(fn): fn is called without arguments.
Option_unwrapOrElse(h, self, fn) ==
    LET r == CallFn(fn, Undefined)
    IN IF Truthy(Option_isNone(h, self))
       THEN IF r.threw THEN ThrowCalled(h, r.val, <<Undefined>>)
            ELSE ReturnCalled(h, r.val, <<Undefined>>)
       ELSE Return(h, h[self].val)

\* map(fn)
Option_map(h, self, fn) ==
    LET val == h[self].val
        r == CallFn(fn, val)
    IN IF Truthy(Option_isSome(h, self))
       THEN IF r.threw THEN ThrowCalled(h, r.val, <<val>>)
            ELSE AllocCalled(h, NewOption(r.val), <<val>>)
       ELSE Return(h, Ref(self))

\* mapOr(fallback, fn)
Option_mapOr(h, self, fallback, fn) ==
    LET val == h[self].val
        r == CallFn(fn, val)
    IN IF Truthy(Option_isSome(h, self))
       THEN IF r.threw THEN ThrowCalled(h, r.val, <<val>>)
            ELSE ReturnCalled(h, r.val, <<val>>)
       ELSE Return(h, fallback)

\* or(or)
Option_or(h, self, or) ==
    IF Truthy(Option_isSome(h, self)) THEN Return(h, Ref(self))
    ELSE Return(h, or)

\* A variant of okOr that takes a falsy payload for absence.
Option_okOr_Truthy(h, self, err) ==
    IF Truthy(h[self].val) /\ h[self].val # none THEN Ok(h, h[self].val)
    ELSE Err(h, err)

\* okOr(err)
Option_okOr(h, self, err) ==
    IF Truthy(Option_isSome(h, self)) THEN Ok(h, h[self].val)
    ELSE Err(h, err)

\* peek()
Option_peek(h, self) == Return(h, h[self].val)

\* A variant of flatten that unwraps a wrapper of either family.
Option_flatten_AnyWrapper(h, self) ==
    IF IsOption(h, h[self].val) \/ IsResult(h, h[self].val) THEN Return(h, h[self].val)
    ELSE Return(h, Ref(self))

\* flatten(): this.val instanceof Option
Option_flatten(h, self) ==
    IF IsOption(h, h[self].val) THEN Return(h, h[self].val)
    ELSE Return(h, Ref(self))

\* A variant of the iterator that yields whatever the Option holds.
Option_iterator_Token(h, self) ==
    [Return(h, Undefined) EXCEPT !.items = <<h[self].val>>]

\* *[Symbol.iterator]()
Option_iterator(h, self) ==
    [Return(h, Undefined) EXCEPT !.items =
        IF Truthy(Option_isSome(h, self)) THEN <<h[self].val>> ELSE <<>>]

\* new Option(input)
Option_new(h, input) == Alloc(h, NewOption(input))

\* A variant of Option.from that takes every falsy result for an absent one
\* (`if (!result)`).
Option_from_Falsy(h, fn) ==
    LET r == CallFn(fn, Undefined)
    IN IF r.threw THEN ThrowCalled(h, r.val, <<Undefined>>)
       ELSE IF ~Truthy(r.val)
            THEN AllocCalled(h, NewOption(none), <<Undefined>>)
            ELSE AllocCalled(h, NewOption(r.val), <<Undefined>>)

\* A variant of Option.from that runs fn in a try and answers None from the
\* catch.
Option_from_Catching(h, fn) ==
    LET r == CallFn(fn, Undefined)
    IN IF r.threw THEN AllocCalled(h, NewOption(none), <<Undefined>>)
       ELSE AllocCalled(h, NewOption(r.val), <<Undefined>>)

\* Option.from(fn): a failure of fn is not caught.
Option_from(h, fn) ==
    LET r == CallFn(fn, Undefined)
    IN IF r.threw THEN ThrowCalled(h, r.val, <<Undefined>>)
       ELSE IF r.val = Null \/ r.val = Undefined
            THEN AllocCalled(h, NewOption(none), <<Undefined>>)
            ELSE AllocCalled(h, NewOption(r.val), <<Undefined>>)

\* Option.fromAsync(fn) up to the await: nothing catches what fn() throws.
Option_fromAsync(h, fn) ==
    IF fn.k = "throw"
    THEN Rejected(h, Task("Option", fn, "none", "pending", Undefined), fn.v)
    ELSE Awaiting(h, "Option", fn)

\* A variant of Option.fromAsync that awaits in a try and answers None from
\* the catch.
Option_fromAsync_resumed_Catching(h, t) ==
    IF t.awaited = "rejected"
    THEN Fulfilled(Append(h, NewOption(none)), t, Ref(Len(h) + 1))
    ELSE Fulfilled(Append(h, NewOption(t.fn.v)), t, Ref(Len(h) + 1))

\* Option.fromAsync(fn) from the await on: a rejection is rethrown by the
\* await and leaves the function.
Option_fromAsync_resumed(h, t) ==
    IF t.awaited = "rejected" THEN Rejected(h, t, t.fn.v)
    ELSE IF t.fn.v = Null \/ t.fn.v = Undefined
         THEN Fulfilled(Append(h, NewOption(none)), t, Ref(Len(h) + 1))
         ELSE Fulfilled(Append(h, NewOption(t.fn.v)), t, Ref(Len(h) + 1))

\* Some(input)
Some(h, input) == Alloc(h, NewOption(input))

\* Some[Symbol.hasInstance](instance)
Some_hasInstance(h, instance) ==
    IF TypeOf(instance) # "object" THEN Return(h, False)
    ELSE IF instance = Null THEN Return(h, JsOr(Undefined, False))
    ELSE IF IsOption(h, instance) THEN Return(h, JsOr(Option_isSome(h, instance.n), False))
    ELSE ThrowNew(h, NewTypeError)

\* None()
None(h) == Alloc(h, NewOption(none))

\* None[Symbol.hasInstance](instance)
None_hasInstance(h, instance) ==
    IF TypeOf(instance) # "object" THEN Return(h, False)
    ELSE IF instance = Null THEN Return(h, JsOr(Undefined, False))
    ELSE IF IsOption(h, instance) THEN Return(h, JsOr(Option_isNone(h, instance.n), False))
    ELSE ThrowNew(h, NewTypeError)

-----------------------------------------------------------------------------
(* The program: a caller that builds wrappers and calls their operations.  *)

\* The caller may allocate this many objects beyond the ones it starts with.
MaxAlloc == 2

\* The longest list handed to Result.partition.
MaxList == 2

\* The objects the caller starts with (src/tests/result.test.ts:8-20, 100, 111):
\* new Error("T"); a TestError (class TestError extends Error) whose stack was
\* deleted; an ErrorLookAlike; and Object.create(Error), which has the function
\* Error on its prototype chain and inherits Error.name.
InitHeap ==
    << Obj("Error", Undefined, Str(<<"Error">>), Str(<<"T">>),
           Str(<<"Error", ": ", "T", NL, "    at <anonymous>">>)),
       Obj("TestError", Undefined, Str(<<"TestError">>), Str(<<"T">>), Undefined),
       Obj("ErrorLookAlike", Undefined, Str(<<"ErrorLookAlike">>), Str(<<"T">>), Undefined),
       Obj("ErrorChild", Undefined, Str(<<"Error">>), Undefined, Undefined) >>

anError      == Ref(1)
aTestError   == Ref(2)
aLookAlike   == Ref(3)
anErrorChild == Ref(4)

Primitives == {Undefined, Null, Num(0), Str(<<>>), Str(<<"a">>), none, fakeNone}

Values == Primitives \cup {Ref(a) : a \in DOMAIN InitHeap}

Results(h) == {a \in DOMAIN h : h[a].cls = "Result"}
Options(h) == {a \in DOMAIN h : h[a].cls = "Option"}

\* What a wrapper can be given to hold: any value, wrappers included.
Payloads(h) == Values \cup {Ref(a) : a \in Results(h) \cup Options(h)}

\* What Err and okOr accept (E | string): a string, or an object with the
\* shape of an Error.
ErrInputs == {Str(<<>>), Str(<<"a">>)} \cup {Ref(a) : a \in DOMAIN InitHeap}

Messages == {Str(<<"m">>)}

\* A fallback and a function result that no payload equals.
Fallbacks == {Str(<<"f">>)}

MapFns == {FnId, FnConst(Str(<<"b">>)), FnConst(anError), FnThrow(anError)}

FromFns == {FnConst(v) : v \in Values \cup {False}} \cup {FnThrow(v) : v \in Values}

\* What an asynchronous function settles with: absent and falsy values, a
\* string, the absence token, an error and an object shaped like one.
AsyncValues == {Undefined, Null, Num(0), False, Str(<<"a">>), none, anError, aLookAlike}

AsyncFns ==
    {AsyncResolve(v) : v \in AsyncValues} \cup {AsyncReject(v) : v \in AsyncValues}
        \cup {AsyncThrow(v) : v \in AsyncValues}

\* What is put on the left of instanceof: any wrapper, and some values that
\* are none (a primitive, null, an object of another class).
Instances(h) ==
    {Ref(a) : a \in Results(h) \cup Options(h)} \cup {Str(<<"a">>), Null, anError}

RECURSIVE SeqsUpTo(_, _)
SeqsUpTo(S, n) ==
    IF n = 0 THEN {<<>>}
    ELSE LET shorter == SeqsUpTo(S, n - 1)
         IN shorter \cup {Append(q, x) : q \in shorter, x \in S}

NoFn == FnConst(Undefined)

\* The caller between two calls.
Idle ==
    [op |-> "idle", self |-> 0, arg |-> Undefined, fn |-> NoFn, list |-> <<>>,
     pre |-> 0, threw |-> FALSE, val |-> Undefined, exc |-> NoObj,
     calls |-> <<>>, items |-> <<>>, ok |-> <<>>, err |-> <<>>]

\* One call: the heap becomes the completion's heap, and last records the call
\* and how it ended.  pre is the number of objects before the call.
Call(op, self, arg, fn, list, c) ==
    /\ Len(c.heap) <= Len(InitHeap) + MaxAlloc
    /\ heap' = c.heap
    /\ last' = [op |-> op, self |-> self, arg |-> arg, fn |-> fn, list |-> list,
                pre |-> Len(heap), threw |-> c.threw, val |-> c.val, exc |-> c.exc,
                calls |-> c.calls, items |-> c.items, ok |-> c.ok, err |-> c.err]
    /\ UNCHANGED tasks

Init ==
    /\ heap = InitHeap
    /\ last = Idle
    /\ tasks = <<>>

\* The caller takes the completion (a try/catch around the call when it threw)
\* and goes on to its next call.
Resume ==
    /\ last.op # "idle"
    /\ last' = Idle
    /\ UNCHANGED <<heap, tasks>>

\* Constructors and adapters
DoOk ==
    /\ last.op = "idle"
    /\ \E v \in Payloads(heap) : Call("Ok", 0, v, NoFn, <<>>, Ok(heap, v))
DoErr ==
    /\ last.op = "idle"
    /\ \E v \in ErrInputs : Call("Err", 0, v, NoFn, <<>>, Err(heap, v))
DoNewResult ==
    /\ last.op = "idle"
    /\ \E v \in Payloads(heap) : Call("new Result", 0, v, NoFn, <<>>, Result_new(heap, v))
DoResultFrom ==
    /\ last.op = "idle"
    /\ \E f \in FromFns : Call("Result.from", 0, Undefined, f, <<>>, Result_from(heap, f))
DoSome ==
    /\ last.op = "idle"
    /\ \E v \in Payloads(heap) : Call("Some", 0, v, NoFn, <<>>, Some(heap, v))
DoNone ==
    /\ last.op = "idle"
    /\ Call("None", 0, Undefined, NoFn, <<>>, None(heap))
DoNewOption ==
    /\ last.op = "idle"
    /\ \E v \in Payloads(heap) : Call("new Option", 0, v, NoFn, <<>>, Option_new(heap, v))
DoOptionFrom ==
    /\ last.op = "idle"
    /\ \E f \in FromFns : Call("Option.from", 0, Undefined, f, <<>>, Option_from(heap, f))

\* Result operations
DoResultIsOk ==
    /\ last.op = "idle"
    /\ \E r \in Results(heap) :
        Call("Result.isOk", r, Undefined, NoFn, <<>>, Return(heap, Result_isOk(heap, r)))
DoResultIsErr ==
    /\ last.op = "idle"
    /\ \E r \in Results(heap) :
        Call("Result.isErr", r, Undefined, NoFn, <<>>, Return(heap, Result_isErr(heap, r)))
DoResultExpect ==
    /\ last.op = "idle"
    /\ \E r \in Results(heap), m \in Messages :
        Call("Result.expect", r, m, NoFn, <<>>, Result_expect(heap, r, m))
DoResultExpectErr ==
    /\ last.op = "idle"
    /\ \E r \in Results(heap), m \in Messages :
        Call("Result.expectErr", r, m, NoFn, <<>>, Result_expectErr(heap, r, m))
DoResultUnwrap ==
    /\ last.op = "idle"
    /\ \E r \in Results(heap) :
        Call("Result.unwrap", r, Undefined, NoFn, <<>>, Result_unwrap(heap, r))
DoResultUnwrapErr ==
    /\ last.op = "idle"
    /\ \E r \in Results(heap) :
        Call("Result.unwrapErr", r, Undefined, NoFn, <<>>, Result_unwrapErr(heap, r))
DoResultUnwrapOr ==
    /\ last.op = "idle"
    /\ \E r \in Results(heap), v \in Fallbacks :
        Call("Result.unwrapOr", r, v, NoFn, <<>>, Result_unwrapOr(heap, r, v))
DoResultUnwrapOrElse ==
    /\ last.op = "idle"
    /\ \E r \in Results(heap), f \in MapFns :
        Call("Result.unwrapOrElse", r, Undefined, f, <<>>, Result_unwrapOrElse(heap, r, f))
DoResultMap ==
    /\ last.op = "idle"
    /\ \E r \in Results(heap), f \in MapFns :
        Call("Result.map", r, Undefined, f, <<>>, Result_map(heap, r, f))
DoResultMapErr ==
    /\ last.op = "idle"
    /\ \E r \in Results(heap), f \in MapFns :
        Call("Result.mapErr", r, Undefined, f, <<>>, Result_mapErr(heap, r, f))
DoResultMapOr ==
    /\ last.op = "idle"
    /\ \E r \in Results(heap), v \in Fallbacks, f \in MapFns :
        Call("Result.mapOr", r, v, f, <<>>, Result_mapOr(heap, r, v, f))
DoResultOr ==
    /\ last.op = "idle"
    /\ \E r \in Results(heap), o \in Results(heap) :
        Call("Result.or", r, Ref(o), NoFn, <<>>, Result_or(heap, r, Ref(o)))
DoResultPeek ==
    /\ last.op = "idle"
    /\ \E r \in Results(heap) :
        Call("Result.peek", r, Undefined, NoFn, <<>>, Result_peek(heap, r))
DoResultThrow ==
    /\ last.op = "idle"
    /\ \E r \in Results(heap) :
        Call("Result.throw", r, Undefined, NoFn, <<>>, Result_throw(heap, r))
DoResultIterate ==
    /\ last.op = "idle"
    /\ \E r \in Results(heap) :
        Call("Result.iterator", r, Undefined, NoFn, <<>>, Result_iterator(heap, r))
DoResultOk ==
    /\ last.op = "idle"
    /\ \E r \in Results(heap) :
        Call("Result.ok", r, Undefined, NoFn, <<>>, Result_ok(heap, r))
DoResultFlatten ==
    /\ last.op = "idle"
    /\ \E r \in Results(heap) :
        Call("Result.flatten", r, Undefined, NoFn, <<>>, Result_flatten(heap, r))
DoResultPartition ==
    /\ last.op = "idle"
    /\ \E l \in SeqsUpTo({Ref(r) : r \in Results(heap)}, MaxList) :
            Call("Result.partition", 0, Undefined, NoFn, l, Result_partition(heap, l))

\* Option operations
DoOptionIsSome ==
    /\ last.op = "idle"
    /\ \E o \in Options(heap) :
        Call("Option.isSome", o, Undefined, NoFn, <<>>, Return(heap, Option_isSome(heap, o)))
DoOptionIsNone ==
    /\ last.op = "idle"
    /\ \E o \in Options(heap) :
        Call("Option.isNone", o, Undefined, NoFn, <<>>, Return(heap, Option_isNone(heap, o)))
DoOptionExpect ==
    /\ last.op = "idle"
    /\ \E o \in Options(heap), m \in Messages :
        Call("Option.expect", o, m, NoFn, <<>>, Option_expect(heap, o, m))
DoOptionUnwrap ==
    /\ last.op = "idle"
    /\ \E o \in Options(heap) :
        Call("Option.unwrap", o, Undefined, NoFn, <<>>, Option_unwrap(heap, o))
DoOptionUnwrapOr ==
    /\ last.op = "idle"
    /\ \E o \in Options(heap), v \in Fallbacks :
        Call("Option.unwrapOr", o, v, NoFn, <<>>, Option_unwrapOr(heap, o, v))
DoOptionUnwrapOrElse ==
    /\ last.op = "idle"
    /\ \E o \in Options(heap), f \in MapFns :
        Call("Option.unwrapOrElse", o, Undefined, f, <<>>, Option_unwrapOrElse(heap, o, f))
DoOptionMap ==
    /\ last.op = "idle"
    /\ \E o \in Options(heap), f \in MapFns :
        Call("Option.map", o, Undefined, f, <<>>, Option_map(heap, o, f))
DoOptionMapOr ==
    /\ last.op = "idle"
    /\ \E o \in Options(heap), v \in Fallbacks, f \in MapFns :
        Call("Option.mapOr", o, v, f, <<>>, Option_mapOr(heap, o, v, f))
DoOptionOr ==
    /\ last.op = "idle"
    /\ \E o \in Options(heap), p \in Options(heap) :
        Call("Option.or", o, Ref(p), NoFn, <<>>, Option_or(heap, o, Ref(p)))
DoOptionOkOr ==
    /\ last.op = "idle"
    /\ \E o \in Options(heap), e \in ErrInputs :
        Call("Option.okOr", o, e, NoFn, <<>>, Option_okOr(heap, o, e))
DoOptionPeek ==
    /\ last.op = "idle"
    /\ \E o \in Options(heap) :
        Call("Option.peek", o, Undefined, NoFn, <<>>, Option_peek(heap, o))
DoOptionFlatten ==
    /\ last.op = "idle"
    /\ \E o \in Options(heap) :
        Call("Option.flatten", o, Undefined, NoFn, <<>>, Option_flatten(heap, o))
DoOptionIterate ==
    /\ last.op = "idle"
    /\ \E o \in Options(heap) :
        Call("Option.iterator", o, Undefined, NoFn, <<>>, Option_iterator(heap, o))

\* instanceof
DoInstanceofOk ==
    /\ last.op = "idle"
    /\ \E x \in Instances(heap) :
        Call("instanceof Ok", 0, x, NoFn, <<>>, Ok_hasInstance(heap, x))
DoInstanceofErr ==
    /\ last.op = "idle"
    /\ \E x \in Instances(heap) :
        Call("instanceof Err", 0, x, NoFn, <<>>, Err_hasInstance(heap, x))
DoInstanceofSome ==
    /\ last.op = "idle"
    /\ \E x \in Instances(heap) :
        Call("instanceof Some", 0, x, NoFn, <<>>, Some_hasInstance(heap, x))
DoInstanceofNone ==
    /\ last.op = "idle"
    /\ \E x \in Instances(heap) :
        Call("instanceof None", 0, x, NoFn, <<>>, None_hasInstance(heap, x))

Next ==
    \/ DoOk \/ DoErr \/ DoNewResult \/ DoResultFrom
    \/ DoSome \/ DoNone \/ DoNewOption \/ DoOptionFrom
    \/ DoResultIsOk \/ DoResultIsErr \/ DoResultExpect \/ DoResultExpectErr
    \/ DoResultUnwrap \/ DoResultUnwrapErr \/ DoResultUnwrapOr \/ DoResultUnwrapOrElse
    \/ DoResultMap \/ DoResultMapErr \/ DoResultMapOr \/ DoResultOr
    \/ DoResultPeek \/ DoResultThrow \/ DoResultIterate \/ DoResultOk
    \/ DoResultFlatten \/ DoResultPartition
    \/ DoOptionIsSome \/ DoOptionIsNone \/ DoOptionExpect \/ DoOptionUnwrap
    \/ DoOptionUnwrapOr \/ DoOptionUnwrapOrElse \/ DoOptionMap \/ DoOptionMapOr
    \/ DoOptionOr \/ DoOptionOkOr \/ DoOptionPeek \/ DoOptionFlatten \/ DoOptionIterate
    \/ DoInstanceofOk \/ DoInstanceofErr \/ DoInstanceofSome \/ DoInstanceofNone
    \/ Resume

Spec == Init /\ [][Next]_vars

-----------------------------------------------------------------------------
(* The from adapters, synchronous and asynchronous.  A call of fromAsync    *)
(* runs to its await and hands the caller a promise; the awaited promise    *)
(* settles at some later time, and the rest of fromAsync then runs as a job *)
(* of the promise queue.                                                     *)

\* The caller makes at most this many calls of the from adapters that hand it
\* a wrapper or a promise.
MaxFrom == 1

\* The calls made so far that did: a wrapper returned, or a promise that has
\* fulfilled with one, is an object of the heap; the other promises are the
\* tasks not fulfilled.
FromCalls ==
    Len(heap) - Len(InitHeap)
        + Cardinality({i \in DOMAIN tasks : tasks[i].state # "fulfilled"})

StartTask(c) ==
    /\ FromCalls < MaxFrom
    /\ heap' = c.heap
    /\ tasks' = Append(tasks, c.task)
    /\ UNCHANGED last

DoResultFromAsync ==
    /\ last.op = "idle"
    /\ \E f \in AsyncFns : StartTask(Result_fromAsync(heap, f))

DoOptionFromAsync ==
    /\ last.op = "idle"
    /\ \E f \in AsyncFns : StartTask(Option_fromAsync(heap, f))

\* The promise fn() returned settles: it fulfils or rejects as fn decides.
Settle(i) ==
    /\ i \in DOMAIN tasks
    /\ tasks[i].awaited = "pending"
    /\ tasks' = [tasks EXCEPT ![i].awaited =
                    IF tasks[i].fn.k = "resolve" THEN "fulfilled" ELSE "rejected"]
    /\ UNCHANGED <<heap, last>>

\* The job that resumes fromAsync after its await.
ResumeTask(i) ==
    /\ i \in DOMAIN tasks
    /\ tasks[i].awaited \in {"fulfilled", "rejected"}
    /\ tasks[i].state = "pending"
    /\ LET c == IF tasks[i].of = "Result"
                THEN Result_fromAsync_resumed(heap, tasks[i])
                ELSE Option_fromAsync_resumed(heap, tasks[i])
       IN /\ heap' = c.heap
          /\ tasks' = [tasks EXCEPT ![i] = c.task]
    /\ UNCHANGED last

FromNext ==
    \/ FromCalls < MaxFrom /\ DoResultFrom
    \/ FromCalls < MaxFrom /\ DoOptionFrom
    \/ DoResultFromAsync \/ DoOptionFromAsync
    \/ \E i \in 1..MaxFrom : Settle(i)
    \/ \E i \in 1..MaxFrom : ResumeTask(i)
    \/ Resume

\* Every asynchronous computation started here settles (the claims about
\* fromAsync speak of computations that do), and the promise queue runs every
\* job put on it.
FromSpec ==
    /\ Init /\ [][FromNext]_vars
    /\ \A i \in 1..MaxFrom : WF_vars(Settle(i)) /\ WF_vars(ResumeTask(i))

-----------------------------------------------------------------------------
(* Vocabulary of the claims.  From here on the definitions state         *)
(* properties of the program above; none of them is a part of it.         *)

\* The classes whose instances inherit from the built-in Error.
ErrorClasses == {"Error", "TestError", "TypeError"}

PayloadClass(h, v) == IF IsObject(h, v) THEN h[v.n].cls ELSE "primitive"

\* The error capability by shape: an object with a message field.
HasMessageField(h, v) == IsObject(h, v) /\ h[v.n].message.t = "string"

\* A value with nothing of an error about it, by inheritance or by shape.
NotErrorCapable(h, v) ==
    PayloadClass(h, v) \notin ErrorClasses \cup {"ErrorLookAlike", "ErrorChild"}

\* The wrapper the last call returned.
Returned == last.val.n

ReturnedWrapper == ~last.threw /\ last.val.t = "object" /\ last.val.n \in DOMAIN heap

Returns(c, v) == ~c.threw /\ c.val = v

-----------------------------------------------------------------------------
\* C1: for every value v that is not error-capable (falsy payloads and the
\* no-argument call included), Ok(v).isOk() is true, Ok(v).isErr() is false
\* and Ok(v).unwrap() returns v without raising.
C1_OkIsOk ==
    (last.op = "Ok" /\ NotErrorCapable(heap, last.arg)) =>
        /\ Result_isOk(heap, Returned) = True
        /\ Result_isErr(heap, Returned) = False
        /\ Returns(Result_unwrap(heap, Returned), last.arg)

C3_SomeAnyValue ==
    /\ last.op = "Some" =>
          /\ Option_isSome(heap, Returned) = True
          /\ Returns(Option_unwrap(heap, Returned), last.arg)
    /\ last.op = "None" =>
          /\ Option_isNone(heap, Returned) = True
          /\ Option_unwrap(heap, Returned).threw

\* C3 as amended: for all values v other than the absence token none,
\* Some(v).isSome() is true and Some(v).unwrap() returns v; None().isNone() is
\* true and None().unwrap() raises.
C3_SomeNotNone ==
    /\ (last.op = "Some" /\ last.arg # none) =>
          /\ Option_isSome(heap, Returned) = True
          /\ Returns(Option_unwrap(heap, Returned), last.arg)
    /\ last.op = "None" =>
          /\ Option_isNone(heap, Returned) = True
          /\ Option_unwrap(heap, Returned).threw

\* Some(null) was built.
C3_Witness ==
    /\ last.op = "Some" /\ last.arg = Null
    /\ Option_unwrap(heap, Returned).val = Null

\* C4: a Result satisfies exactly one of isOk()/isErr() and an Option exactly
\* one of isSome()/isNone(); each query returns a boolean, and isErr() is the
\* boolean negation of isOk(), falsy payloads included.
C4_ExactlyOneVariant ==
    /\ \A r \in Results(heap) :
          /\ IsBoolean(Result_isOk(heap, r))
          /\ IsBoolean(Result_isErr(heap, r))
          /\ Result_isErr(heap, r) = JsNot(Result_isOk(heap, r))
    /\ \A o \in Options(heap) :
          /\ IsBoolean(Option_isSome(heap, o))
          /\ IsBoolean(Option_isNone(heap, o))
          /\ Option_isNone(heap, o) = JsNot(Option_isSome(heap, o))

\* C5: an Option is None if and only if its payload is the token none; an
\* Option holding null, undefined, a falsy value or any other symbol is Some,
\* and unwrap() returns that payload.
C5_NoneIffToken ==
    \A o \in Options(heap) :
        /\ (Option_isNone(heap, o) = True) <=> (heap[o].val = none)
        /\ heap[o].val # none =>
              /\ Option_isSome(heap, o) = True
              /\ Option_isNone(heap, o) = False
              /\ Returns(Option_unwrap(heap, o), heap[o].val)

\* isNone() was asked of an Option holding another symbol described "None".
C5_Witness ==
    /\ last.op = "Option.isNone"
    /\ heap[last.self].val = fakeNone
    /\ last.val = False

\* What a caller can observe of a wrapper without changing anything: for a
\* Result, isOk(), isErr(), peek(), how unwrap() and unwrapErr() end, and what
\* iterating yields; for an Option, isSome(), isNone(), peek(), how unwrap()
\* ends, and what iterating yields.
Outcome(c) == <<c.threw, c.val, c.exc, c.items>>

Observe(h, a) ==
    IF h[a].cls = "Result"
    THEN << Result_isOk(h, a), Result_isErr(h, a), Outcome(Result_peek(h, a)),
            Outcome(Result_unwrap(h, a)), Outcome(Result_unwrapErr(h, a)),
            Outcome(Result_iterator(h, a)) >>
    ELSE << Option_isSome(h, a), Option_isNone(h, a), Outcome(Option_peek(h, a)),
            Outcome(Option_unwrap(h, a)), Outcome(Option_iterator(h, a)) >>

\* C6: wrappers are immutable: whatever operation runs (queries, unwrap
\* variants that raise, map/mapErr/mapOr, or, flatten, okOr, throw, iteration,
\* partition), every existing object keeps its payload and discriminant, and
\* every query of an existing wrapper answers after the step what it answered
\* before it (a step that leaves the heap as it was does so at once).
C6_Immutable ==
    [][\/ heap' = heap
       \/ \A a \in DOMAIN heap :
             /\ a \in DOMAIN heap'
             /\ heap'[a] = heap[a]
             /\ (a \in Results(heap) \cup Options(heap))
                   => Observe(heap', a) = Observe(heap, a)
      ]_vars

\* unwrap() has just raised on an Err that still holds its error.
C6_Witness ==
    /\ last.op = "Result.unwrap" /\ last.threw
    /\ heap[last.self] = NewResult(anError)

\* C7 as stated: a Result is Err whenever its payload has the shape of an error
\* (an object with a message field), whether or not it inherits from Error;
\* it is Ok otherwise.
C7_ErrByShape ==
    \A r \in Results(heap) :
        IF \/ HasMessageField(heap, heap[r].val)
           \/ PayloadClass(heap, heap[r].val) \in ErrorClasses \cup {"ErrorChild"}
        THEN Truthy(Result_isErr(heap, r)) /\ ~Truthy(Result_isOk(heap, r))
        ELSE Truthy(Result_isOk(heap, r)) /\ ~Truthy(Result_isErr(heap, r))

\* C7 as amended: a Result is Err exactly when its payload inherits from the
\* built-in Error (an Error or an instance of a class extending it) or has the
\* function Error itself on its prototype chain; it is Ok otherwise, also when
\* the payload has a message field.
C7_ErrByInheritance ==
    \A r \in Results(heap) :
        IF PayloadClass(heap, heap[r].val) \in ErrorClasses \cup {"ErrorChild"}
        THEN Truthy(Result_isErr(heap, r)) /\ ~Truthy(Result_isOk(heap, r))
        ELSE Truthy(Result_isOk(heap, r)) /\ ~Truthy(Result_isErr(heap, r))

\* isOk() answered true for a Result holding an object with name, message and
\* stack fields that does not inherit from Error.
C7_Witness ==
    /\ last.op = "Result.isOk"
    /\ HasMessageField(heap, heap[last.self].val)
    /\ heap[last.self].val = aLookAlike
    /\ last.val = True

\* How the Result the last call returned was built.
Builders == {"new Result", "Ok", "Err", "Result.from"}

\* C8: a Result whose payload is an Error or an instance of a class extending
\* Error is Err (isErr true, isOk false); one whose payload only has name,
\* message and stack fields is Ok (isOk true, isErr false); whichever way it
\* was built (constructor, Ok, Err, Result.from).
C8_NominalErrors ==
    (last.op \in Builders /\ ReturnedWrapper) =>
        LET val == heap[Returned].val
        IN /\ PayloadClass(heap, val) \in {"Error", "TestError"} =>
                 /\ Result_isErr(heap, Returned) = True
                 /\ Result_isOk(heap, Returned) = False
           /\ PayloadClass(heap, val) = "ErrorLookAlike" =>
                 /\ Result_isOk(heap, Returned) = True
                 /\ Result_isErr(heap, Returned) = False

\* Result.from caught a thrown instance of a class extending Error.
C8_Witness ==
    /\ last.op = "Result.from" /\ last.fn = FnThrow(aTestError)
    /\ ReturnedWrapper
    /\ Result_isErr(heap, Returned) = True

\* What the function of the last call gives for the receiver's payload.
FnOfPayload == CallFn(last.fn, heap[last.self].val)

\* C9 as stated: for every error e and function f, Err(e).map(f).peek() is e;
\* for every value v and function f, Ok(v).map(f).unwrap() equals f(v); for
\* Option, Some(v).map(f).peek() equals f(v) and None().map(f) is None.
C9_MapLaw ==
    /\ (last.op = "Result.map" /\ ~FnOfPayload.threw) =>
          IF Truthy(Result_isErr(heap, last.self))
          THEN ReturnedWrapper
               /\ Returns(Result_peek(heap, Returned), heap[last.self].val)
          ELSE ReturnedWrapper
               /\ Returns(Result_unwrap(heap, Returned), FnOfPayload.val)
    /\ (last.op = "Option.map" /\ ~FnOfPayload.threw) =>
          IF Truthy(Option_isSome(heap, last.self))
          THEN ReturnedWrapper
               /\ Returns(Option_peek(heap, Returned), FnOfPayload.val)
          ELSE ReturnedWrapper /\ Option_isNone(heap, Returned) = True

\* C9 as amended: for every error e and function f, Err(e).map(f).peek() is e;
\* for every value v and function f, Ok(v).map(f).peek() equals f(v), and
\* Ok(v).map(f).unwrap() equals f(v) when f(v) is not an error value; for
\* Option, Some(v).map(f).peek() equals f(v) and None().map(f) is None.
C9_MapLawNonError ==
    /\ (last.op = "Result.map" /\ ~FnOfPayload.threw) =>
          IF Truthy(Result_isErr(heap, last.self))
          THEN ReturnedWrapper
               /\ Returns(Result_peek(heap, Returned), heap[last.self].val)
          ELSE ReturnedWrapper
               /\ Returns(Result_peek(heap, Returned), FnOfPayload.val)
               /\ PayloadClass(heap, FnOfPayload.val) \notin ErrorClasses \cup {"ErrorChild"}
                     => Returns(Result_unwrap(heap, Returned), FnOfPayload.val)
    /\ (last.op = "Option.map" /\ ~FnOfPayload.threw) =>
          IF Truthy(Option_isSome(heap, last.self))
          THEN ReturnedWrapper
               /\ Returns(Option_peek(heap, Returned), FnOfPayload.val)
          ELSE ReturnedWrapper /\ Option_isNone(heap, Returned) = True

\* map was called on an Err with a function that returns something else.
C9_Witness ==
    /\ last.op = "Result.map" /\ last.fn = FnConst(Str(<<"b">>))
    /\ heap[last.self].val = aTestError
    /\ ReturnedWrapper
    /\ Result_peek(heap, Returned).val = aTestError

\* C10: Ok(v).or(alternative).peek() is v whatever the alternative;
\* Err(e).or(Ok(w)).peek() is w; Some(v).or(x).peek() is v and
\* None().or(Some(w)).peek() is w.
C10_OrLaw ==
    /\ last.op = "Result.or" =>
          /\ ReturnedWrapper
          /\ IF Truthy(Result_isOk(heap, last.self))
             THEN Returns(Result_peek(heap, Returned), heap[last.self].val)
             ELSE Returns(Result_peek(heap, Returned), heap[last.arg.n].val)
    /\ last.op = "Option.or" =>
          /\ ReturnedWrapper
          /\ IF Truthy(Option_isSome(heap, last.self))
             THEN Returns(Option_peek(heap, Returned), heap[last.self].val)
             ELSE Returns(Option_peek(heap, Returned), heap[last.arg.n].val)

\* or was called on an Err with an Ok alternative holding another payload.
C10_Witness ==
    /\ last.op = "Result.or"
    /\ Truthy(Result_isErr(heap, last.self))
    /\ Truthy(Result_isOk(heap, last.arg.n))
    /\ heap[last.arg.n].val # heap[last.self].val
    /\ Result_peek(heap, Returned).val = heap[last.arg.n].val

\* C12 as stated: Result.ok() on an Ok returns a Some holding the same payload
\* (isSome() true, unwrap() returns it), whatever the payload; on an Err it
\* returns a None.
C12_OkToOption ==
    last.op = "Result.ok" =>
        /\ ReturnedWrapper /\ IsOption(heap, last.val)
        /\ IF Truthy(Result_isOk(heap, last.self))
           THEN /\ Option_isSome(heap, Returned) = True
                /\ Returns(Option_unwrap(heap, Returned), heap[last.self].val)
           ELSE Option_isNone(heap, Returned) = True

\* C12 as amended: Result.ok() on an Ok whose payload is not the absence token
\* none returns a Some holding the same payload (isSome() true, unwrap()
\* returns it); on an Err, and on an Ok holding none, it returns a None.
C12_OkToOptionNotNone ==
    last.op = "Result.ok" =>
        /\ ReturnedWrapper /\ IsOption(heap, last.val)
        /\ IF Truthy(Result_isOk(heap, last.self)) /\ heap[last.self].val # none
           THEN /\ Option_isSome(heap, Returned) = True
                /\ Returns(Option_unwrap(heap, Returned), heap[last.self].val)
           ELSE Option_isNone(heap, Returned) = True

\* ok() was called on an Ok holding 0 and gave a Some that unwraps to 0.
C12_Witness ==
    /\ last.op = "Result.ok"
    /\ heap[last.self].val = Num(0)
    /\ Option_isSome(heap, Returned) = True
    /\ Option_unwrap(heap, Returned).val = Num(0)

\* Some(v).okOr(e).ok().unwrap() for the Result the last call, okOr, returned.
OkThenUnwrap ==
    LET o == Result_ok(heap, Returned)
    IN Option_unwrap(o.heap, o.val.n)

\* C11 as stated: for every value v and error e (an object with the shape of
\* an error), Some(v).okOr(e).ok().unwrap() equals v and
\* None().okOr(e).unwrapErr() equals e.
C11_RoundTrip ==
    (last.op = "Option.okOr" /\ last.arg.t = "object") =>
        /\ ReturnedWrapper /\ IsResult(heap, last.val)
        /\ IF heap[last.self].val # none
           THEN Returns(OkThenUnwrap, heap[last.self].val)
           ELSE Returns(Result_unwrapErr(heap, Returned), last.arg)

\* C11 as amended: for every value v that is neither none nor an error value,
\* Some(v).okOr(e).ok().unwrap() equals v, and for every error e that inherits
\* from Error, None().okOr(e).unwrapErr() equals e.
C11_RoundTripProper ==
    (last.op = "Option.okOr" /\ last.arg.t = "object") =>
        /\ ReturnedWrapper /\ IsResult(heap, last.val)
        /\ (/\ heap[last.self].val # none
            /\ PayloadClass(heap, heap[last.self].val) \notin ErrorClasses \cup {"ErrorChild"})
              => Returns(OkThenUnwrap, heap[last.self].val)
        /\ (/\ heap[last.self].val = none
            /\ PayloadClass(heap, last.arg) \in ErrorClasses \cup {"ErrorChild"})
              => Returns(Result_unwrapErr(heap, Returned), last.arg)

\* okOr was called on a Some holding 0, and the way back gives 0.
C11_Witness ==
    /\ last.op = "Option.okOr" /\ last.arg = aTestError
    /\ heap[last.self].val = Num(0)
    /\ Returns(OkThenUnwrap, Num(0))

\* The payloads of the elements of a list of Results that are Ok (ok = TRUE)
\* or Err (ok = FALSE), in the order of the list.
PayloadsOf(h, list, ok) ==
    LET chosen == SelectSeq(list, LAMBDA x : Truthy(Result_isOk(h, x.n)) = ok)
    IN [i \in 1..Len(chosen) |-> h[chosen[i].n].val]

\* C13: Result.partition(list) never raises and returns { ok, err } where ok is
\* exactly the payloads of the Ok elements and err exactly the errors of the
\* Err elements, each in the order of the input; the two lengths add up to
\* the length of the input, and the call changes no object, so the elements
\* of the input are what they were.
C13_Partition ==
    [][last'.op = "Result.partition" =>
          /\ ~last'.threw
          /\ last'.ok = PayloadsOf(heap, last'.list, TRUE)
          /\ last'.err = PayloadsOf(heap, last'.list, FALSE)
          /\ Len(last'.ok) + Len(last'.err) = Len(last'.list)
          /\ heap' = heap
      ]_vars

\* partition was given an Err followed by an Ok.
C13_Witness ==
    /\ last.op = "Result.partition" /\ Len(last.list) = 2
    /\ heap[last.list[1].n].val = aTestError
    /\ heap[last.list[2].n].val = Str(<<"a">>)
    /\ last.ok = <<Str(<<"a">>)>> /\ last.err = <<aTestError>>

\* What the function handed to the last call does when it is called.
FnOutcome == CallFn(last.fn, Undefined)

\* C14: Result.from(fn) never raises; if fn completes normally with r (r not
\* itself an error value) the result is Ok holding r, and if fn raises x,
\* whatever kind of value x is, the result is Err holding x.
C14_FromCatches ==
    last.op = "Result.from" =>
        /\ ~last.threw /\ ReturnedWrapper /\ IsResult(heap, last.val)
        /\ IF FnOutcome.threw
           THEN /\ Truthy(Result_isErr(heap, Returned))
                /\ ~Truthy(Result_isOk(heap, Returned))
                /\ Returns(Result_unwrapErr(heap, Returned), FnOutcome.val)
           ELSE PayloadClass(heap, FnOutcome.val) \notin ErrorClasses \cup {"ErrorChild"}
                   => /\ Truthy(Result_isOk(heap, Returned))
                      /\ Returns(Result_unwrap(heap, Returned), FnOutcome.val)

\* Task i is a call of the fromAsync of Result ("Result") or Option ("Option").
TaskOf(i, of) == i \in DOMAIN tasks /\ tasks[i].of = of

\* The promise of task i has fulfilled with the Result the contract names: Ok
\* holding v when the computation fulfilled with v (v not itself an error
\* value), Err holding e when it rejected with e or threw e.
FulfilledAsContracted(i) ==
    /\ tasks[i].state = "fulfilled"
    /\ IsResult(heap, tasks[i].val)
    /\ LET r == tasks[i].val.n
           v == tasks[i].fn.v
       IN IF tasks[i].fn.k = "resolve"
          THEN PayloadClass(heap, v) \notin ErrorClasses \cup {"ErrorChild"}
                  => /\ Truthy(Result_isOk(heap, r))
                     /\ Returns(Result_unwrap(heap, r), v)
          ELSE /\ Truthy(Result_isErr(heap, r))
               /\ Returns(Result_unwrapErr(heap, r), v)

\* C15: for every asynchronous computation that settles (it fulfils with v,
\* rejects with e, or throws e before returning a promise), the promise
\* returned by Result.fromAsync never rejects, and it eventually fulfils with
\* a Result: Ok holding v, or Err holding e.
C15_FromAsyncSettles ==
    \A i \in 1..MaxFrom :
        /\ [](TaskOf(i, "Result") => tasks[i].state # "rejected")
        /\ TaskOf(i, "Result") ~> (TaskOf(i, "Result") /\ FulfilledAsContracted(i))

\* The Option at v is None when the computation gave null or undefined, and
\* otherwise Some holding what it gave.
OptionOfValue(v, given) ==
    /\ IsOption(heap, v)
    /\ IF given = Null \/ given = Undefined
       THEN Option_isNone(heap, v.n) = True
       ELSE /\ Option_isSome(heap, v.n) = True
            /\ Returns(Option_unwrap(heap, v.n), given)

\* C16 as stated: Option.from(fn) and Option.fromAsync(fn) yield None when the
\* computation returns null or undefined, and Some holding the returned value
\* for any other returned value (0, "" and false included).
C16_OptionFrom ==
    /\ (last.op = "Option.from" /\ ~FnOutcome.threw) =>
          ~last.threw /\ OptionOfValue(last.val, FnOutcome.val)
    /\ \A i \in DOMAIN tasks :
          (TaskOf(i, "Option") /\ tasks[i].awaited = "fulfilled"
                /\ tasks[i].state # "pending") =>
              tasks[i].state = "fulfilled" /\ OptionOfValue(tasks[i].val, tasks[i].fn.v)

\* C16 as amended: Option.from(fn) and Option.fromAsync(fn) yield None when the
\* computation returns null, undefined or the absence token none, and Some
\* holding the returned value for any other returned value (0, "" and false
\* included).
C16_OptionFromNotNone ==
    /\ (last.op = "Option.from" /\ ~FnOutcome.threw) =>
          /\ ~last.threw
          /\ IF FnOutcome.val = none
             THEN IsOption(heap, last.val) /\ Option_isNone(heap, Returned) = True
             ELSE OptionOfValue(last.val, FnOutcome.val)
    /\ \A i \in DOMAIN tasks :
          (TaskOf(i, "Option") /\ tasks[i].awaited = "fulfilled"
                /\ tasks[i].state # "pending") =>
              /\ tasks[i].state = "fulfilled"
              /\ IF tasks[i].fn.v = none
                 THEN /\ IsOption(heap, tasks[i].val)
                      /\ Option_isNone(heap, tasks[i].val.n) = True
                 ELSE OptionOfValue(tasks[i].val, tasks[i].fn.v)

\* The promise of Option.fromAsync fulfilled with a Some holding false.
C16_Witness ==
    /\ TaskOf(1, "Option") /\ tasks[1].fn = AsyncResolve(False)
    /\ tasks[1].state = "fulfilled"
    /\ Option_isSome(heap, tasks[1].val.n) = True
    /\ Option_unwrap(heap, tasks[1].val.n).val = False

C19_InstanceofAgrees ==
    /\ (last.op = "instanceof Ok" /\ IsResult(heap, last.arg)) =>
          ~last.threw /\ last.val = Result_isOk(heap, last.arg.n)
    /\ (last.op = "instanceof Err" /\ IsResult(heap, last.arg)) =>
          ~last.threw /\ last.val = Result_isErr(heap, last.arg.n)
    /\ (last.op = "instanceof Some" /\ IsOption(heap, last.arg)) =>
          ~last.threw /\ last.val = Option_isSome(heap, last.arg.n)
    /\ (last.op = "instanceof None" /\ IsOption(heap, last.arg)) =>
          ~last.threw /\ last.val = Option_isNone(heap, last.arg.n)

\* Whether the token sequence part occurs in text as it is.
Contains(text, part) ==
    \E i \in 0..(Len(text) - Len(part)) : SubSeq(text, i + 1, i + Len(part)) = part

\* A trace without the tabs that indent its lines.
StripTabs(s) == SelectSeq(s, LAMBDA x : x # TAB)

\* C20: expect(message) returns the payload on Ok and on Some; on Err and on
\* None it raises an Error whose message is exactly the caller's message; for
\* a Result the stack of the Error raised holds the original error's stack,
\* its lines indented, or, where the original has no stack, its message.
C20_Expect ==
    /\ last.op = "Result.expect" =>
          IF Truthy(Result_isErr(heap, last.self))
          THEN /\ last.threw /\ last.exc.cls = "Error"
               /\ last.exc.message = last.arg
               /\ LET stack == GetProp(heap, heap[last.self].val, "stack")
                      message == GetProp(heap, heap[last.self].val, "message")
                  IN IF stack.t = "string"
                     THEN Contains(StripTabs(last.exc.stack.s), stack.s)
                     ELSE message.t = "string" =>
                             Contains(last.exc.stack.s, message.s)
          ELSE ~last.threw /\ last.val = heap[last.self].val
    /\ last.op = "Option.expect" =>
          IF Truthy(Option_isNone(heap, last.self))
          THEN /\ last.threw /\ last.exc.cls = "Error"
               /\ last.exc.message = last.arg
          ELSE ~last.threw /\ last.val = heap[last.self].val

\* expect raised on an Err holding an error with a stack.
C20_Witness ==
    /\ last.op = "Result.expect" /\ heap[last.self].val = anError
    /\ last.threw /\ last.exc.message = last.arg
    /\ Contains(last.exc.stack.s, <<NL, TAB, "Error", ": ", "T">>)

\* C21: expectErr(message) returns the error payload when the Result is Err;
\* on every Ok, whatever it holds (null, undefined and the no-argument Ok
\* included), it raises an Error whose message is exactly the caller's
\* message.
C21_ExpectErr ==
    last.op = "Result.expectErr" =>
        IF Truthy(Result_isOk(heap, last.self))
        THEN /\ last.threw /\ last.exc.cls = "Error"
             /\ last.exc.message = last.arg
        ELSE ~last.threw /\ last.val = heap[last.self].val

\* C22: unwrapOr(fallback) never raises and returns the payload on Ok/Some and
\* the fallback on Err/None; unwrapOrElse(fn) returns the payload on Ok/Some
\* without calling fn, and on Err/None calls fn exactly once (with the error
\* for a Result, with nothing for an Option) and ends as that call ends: it
\* returns what fn returns and raises only what fn raises.
C22_UnwrapOr ==
    /\ last.op = "Result.unwrapOr" =>
          /\ ~last.threw /\ last.calls = <<>>
          /\ last.val = IF Truthy(Result_isErr(heap, last.self))
                        THEN last.arg ELSE heap[last.self].val
    /\ last.op = "Option.unwrapOr" =>
          /\ ~last.threw /\ last.calls = <<>>
          /\ last.val = IF Truthy(Option_isNone(heap, last.self))
                        THEN last.arg ELSE heap[last.self].val
    /\ last.op = "Result.unwrapOrElse" =>
          IF Truthy(Result_isErr(heap, last.self))
          THEN /\ last.calls = <<heap[last.self].val>>
               /\ last.threw = FnOfPayload.threw /\ last.val = FnOfPayload.val
          ELSE /\ last.calls = <<>>
               /\ ~last.threw /\ last.val = heap[last.self].val
    /\ last.op = "Option.unwrapOrElse" =>
          IF Truthy(Option_isNone(heap, last.self))
          THEN /\ last.calls = <<Undefined>>
               /\ last.threw = FnOutcome.threw /\ last.val = FnOutcome.val
          ELSE /\ last.calls = <<>>
               /\ ~last.threw /\ last.val = heap[last.self].val
    /\ last.op \in {"Result.unwrapOr", "Option.unwrapOr",
                    "Result.unwrapOrElse", "Option.unwrapOrElse"} =>
          last.exc = NoObj /\ Len(heap) = last.pre

\* unwrapOrElse on an Err handed the error to a function that returns what it
\* is given.
C22_Witness ==
    /\ last.op = "Result.unwrapOrElse" /\ last.fn = FnId
    /\ heap[last.self].val = aTestError
    /\ last.calls = <<aTestError>>
    /\ ~last.threw /\ last.val = aTestError

C24_Iteration ==
    /\ last.op = "Result.iterator" =>
          /\ ~last.threw
          /\ last.items = IF Truthy(Result_isOk(heap, last.self))
                          THEN <<heap[last.self].val>> ELSE <<>>
          /\ Result_iterator(heap, last.self).items = last.items
    /\ last.op = "Option.iterator" =>
          /\ ~last.threw
          /\ last.items = IF Truthy(Option_isSome(heap, last.self))
                          THEN <<heap[last.self].val>> ELSE <<>>
          /\ \A i \in DOMAIN last.items : last.items[i] # none
          /\ Option_iterator(heap, last.self).items = last.items
    /\ last.op \in {"Result.iterator", "Option.iterator"} => Len(heap) = last.pre

\* An Option holding the absence token was iterated and yielded nothing.
C24_Witness ==
    /\ last.op = "Option.iterator"
    /\ heap[last.self].val = none
    /\ ~last.threw /\ last.items = <<>>

\* C25: throw() on an Err raises the contained error itself, the value peek()
\* returns, and not a copy or a new error; the error object is what it was
\* before.  throw() on an Ok raises nothing and returns undefined.
C25_Throw ==
    last.op = "Result.throw" =>
        /\ IF Truthy(Result_isErr(heap, last.self))
           THEN /\ last.threw /\ last.exc = NoObj
                /\ last.val = Result_peek(heap, last.self).val
                /\ last.val.n \in DOMAIN InitHeap => heap[last.val.n] = InitHeap[last.val.n]
           ELSE ~last.threw /\ last.val = Undefined
        /\ Len(heap) = last.pre

\* throw() on an Err raised the error it holds.
C25_Witness ==
    /\ last.op = "Result.throw"
    /\ heap[last.self].val = anError
    /\ last.threw /\ last.val = anError
    /\ heap[anError.n] = InitHeap[anError.n]

\* The operations that hand back a wrapper.
Combinators ==
    {"Result.map", "Result.mapErr", "Result.or", "Result.flatten", "Result.ok",
     "Option.map", "Option.or", "Option.flatten", "Option.okOr"}

\* The last call made the wrapper it returned.
ReturnedNew == ReturnedWrapper /\ Returned > last.pre

\* C26 as stated: every combinator that returns a wrapper (map, mapErr, or,
\* flatten, okOr, ok) returns a new instance, distinct from the receiver, in
\* every case.
C26_AlwaysNew ==
    (last.op \in Combinators /\ ~last.threw) =>
        ReturnedNew /\ last.val # Ref(last.self)

\* C26 as amended: a combinator returns a new instance where it has something
\* to wrap (map on Ok/Some, mapErr on Err, okOr, ok) and an instance that
\* exists already where it has not: the receiver for map on Err/None, mapErr
\* on Ok, or on Ok/Some and flatten on a non-nested instance, the alternative
\* for or on Err/None, the inner wrapper for flatten on a nested one.
C26_NewOrSelf ==
    /\ (last.op = "Result.map" /\ ~last.threw) =>
          IF Truthy(Result_isOk(heap, last.self))
          THEN ReturnedNew ELSE last.val = Ref(last.self)
    /\ (last.op = "Result.mapErr" /\ ~last.threw) =>
          IF Truthy(Result_isOk(heap, last.self))
          THEN last.val = Ref(last.self) ELSE ReturnedNew
    /\ (last.op = "Option.map" /\ ~last.threw) =>
          IF Truthy(Option_isSome(heap, last.self))
          THEN ReturnedNew ELSE last.val = Ref(last.self)
    /\ last.op = "Result.or" =>
          last.val = IF Truthy(Result_isOk(heap, last.self))
                     THEN Ref(last.self) ELSE last.arg
    /\ last.op = "Option.or" =>
          last.val = IF Truthy(Option_isSome(heap, last.self))
                     THEN Ref(last.self) ELSE last.arg
    /\ last.op \in {"Result.flatten", "Option.flatten"} =>
          last.val = IF PayloadClass(heap, heap[last.self].val) = heap[last.self].cls
                     THEN heap[last.self].val ELSE Ref(last.self)
    /\ last.op \in {"Result.ok", "Option.okOr"} => ~last.threw /\ ReturnedNew
    /\ last.op \in {"Result.or", "Option.or", "Result.flatten", "Option.flatten"} =>
          ~last.threw /\ Len(heap) = last.pre

\* map on an Err handed back the receiver.
C26_Witness ==
    /\ last.op = "Result.map" /\ ~last.threw
    /\ Truthy(Result_isErr(heap, last.self))
    /\ last.val = Ref(last.self) /\ Len(heap) = last.pre

\* The operations that raise by contract: the unwraps on the wrong variant, and
\* throw on an Err.
Raising ==
    {"Result.unwrap", "Result.expect", "Result.unwrapErr", "Result.expectErr",
     "Result.throw", "Option.unwrap", "Option.expect"}

\* The last call was not handed a function that raises; Result.from takes one
\* and catches.
NonRaisingFn == last.fn.k # "throw" \/ last.op = "Result.from"

\* The operand of a membership test is a wrapper of the family tested for.
OperandOfFamily ==
    /\ last.op \in {"instanceof Ok", "instanceof Err"} => IsResult(heap, last.arg)
    /\ last.op \in {"instanceof Some", "instanceof None"} => IsOption(heap, last.arg)

\* C27: apart from unwrap, expect, unwrapErr and expectErr (and throw), no
\* operation raises on the library's account, whatever the payload: the
\* discriminants, peek, unwrapOr, or, okOr, flatten, ok, iteration, the
\* constructors, Result.from (whatever its function does), Result.partition,
\* the membership tests on wrappers of their family, and unwrapOrElse, map,
\* mapErr, mapOr and Option.from with a function that does not raise, all
\* complete normally.
C27_Total ==
    (last.op \notin Raising /\ NonRaisingFn /\ OperandOfFamily) =>
        ~last.threw /\ last.exc = NoObj

\* Result.from completed normally with a function that raises.
C27_Witness ==
    /\ last.op = "Result.from" /\ last.fn = FnThrow(anError)
    /\ ~last.threw /\ ReturnedWrapper

\* Every line of body starts with a tab and body has no other tab: body is a
\* newline, a tab, and then lines joined by a newline and a tab.
TabIndented(body) ==
    /\ Len(body) >= 2 /\ body[1] = NL
    /\ \A i \in DOMAIN body :
          /\ body[i] = NL => (i < Len(body) /\ body[i + 1] = TAB)
          /\ body[i] = TAB => (i > 1 /\ body[i - 1] = NL)

\* The objects an Err of the model can hold, as they were made: the caller's
\* own, or the Error that Err and okOr make of a string.
AsMade(h, v) ==
    IF v.n \in DOMAIN InitHeap THEN h[v.n] = InitHeap[v.n]
    ELSE h[v.n] = NewError(h[v.n].message.s)

\* C28: unwrap() on an Err raises an Error whose message is "Unwrap called on
\* <name>", <name> being the name of the contained error, and whose stack is
\* that message and ": " followed by the original stack, every line of it on
\* a new line and indented by a tab, or, when the original has no stack,
\* followed by the original message; the original error is not modified.
C28_UnwrapErr ==
    (last.op = "Result.unwrap" /\ Truthy(Result_isErr(heap, last.self))) =>
        LET val == heap[last.self].val
            name == GetProp(heap, val, "name")
            stack == GetProp(heap, val, "stack")
            message == GetProp(heap, val, "message")
            head == <<"Unwrap called on ">> \o name.s \o <<": ">>
            trace == last.exc.stack.s
            body == SubSeq(trace, Len(head) + 1, Len(trace))
        IN /\ last.threw /\ last.exc.cls = "Error"
           /\ last.exc.message = Str(<<"Unwrap called on ">> \o name.s)
           /\ SubSeq(trace, 1, Len(head)) = head
           /\ IF stack.t = "string"
              THEN TabIndented(body) /\ StripTabs(body) = <<NL>> \o stack.s
              ELSE body = JsToString(heap, message)
           /\ AsMade(heap, val)

\* unwrap() raised on an Err holding an error without a stack: the stack of
\* the Error raised is "Unwrap called on TestError: T".
C28_Witness ==
    /\ last.op = "Result.unwrap" /\ heap[last.self].val = aTestError
    /\ last.threw
    /\ last.exc.stack = Str(<<"Unwrap called on ", "TestError", ": ", "T">>)

\* What C29 says of mapErr on an Ok and of mapOr: mapErr on an Ok does not call
\* fn and gives a Result with the same payload; mapOr on Ok/Some calls fn once
\* with the payload and ends as that call ends, returning fn's value bare;
\* mapOr on Err/None does not call fn and returns the fallback bare.
MapErrOnOkAndMapOr ==
    /\ (last.op = "Result.mapErr" /\ Truthy(Result_isOk(heap, last.self))) =>
          /\ last.calls = <<>> /\ ReturnedWrapper
          /\ Returns(Result_unwrap(heap, Returned), heap[last.self].val)
    /\ last.op = "Result.mapOr" =>
          IF Truthy(Result_isOk(heap, last.self))
          THEN /\ last.calls = <<heap[last.self].val>>
               /\ last.threw = FnOfPayload.threw /\ last.val = FnOfPayload.val
          ELSE last.calls = <<>> /\ ~last.threw /\ last.val = last.arg
    /\ last.op = "Option.mapOr" =>
          IF Truthy(Option_isSome(heap, last.self))
          THEN /\ last.calls = <<heap[last.self].val>>
               /\ last.threw = FnOfPayload.threw /\ last.val = FnOfPayload.val
          ELSE last.calls = <<>> /\ ~last.threw /\ last.val = last.arg
    /\ last.op \in {"Result.mapOr", "Option.mapOr"} => Len(heap) = last.pre

\* C29 as stated: mapErr(fn) on an Err calls fn once with the error and
\* returns an Err holding fn(error); on an Ok it leaves the payload untouched
\* and does not call fn; mapOr(fallback, fn) returns fn(payload) bare on
\* Ok/Some, calling fn once with the payload, and the fallback bare on
\* Err/None, without calling fn.
C29_MapErrMapOr ==
    /\ (last.op = "Result.mapErr" /\ Truthy(Result_isErr(heap, last.self))) =>
          /\ last.calls = <<heap[last.self].val>>
          /\ ~FnOfPayload.threw =>
                /\ ReturnedNew
                /\ Returns(Result_peek(heap, Returned), FnOfPayload.val)
                /\ Truthy(Result_isErr(heap, Returned))
    /\ MapErrOnOkAndMapOr

\* C29 as amended: mapErr(fn) on an Err returns a new Result holding
\* fn(error), which is Err exactly when fn(error) inherits from Error; the
\* rest as stated.
C29_MapErrHolds ==
    /\ (last.op = "Result.mapErr" /\ Truthy(Result_isErr(heap, last.self))) =>
          /\ last.calls = <<heap[last.self].val>>
          /\ ~FnOfPayload.threw =>
                /\ ReturnedNew
                /\ Returns(Result_peek(heap, Returned), FnOfPayload.val)
                /\ Truthy(Result_isErr(heap, Returned))
                      <=> PayloadClass(heap, FnOfPayload.val)
                              \in ErrorClasses \cup {"ErrorChild"}
    /\ MapErrOnOkAndMapOr

\* mapErr on an Err with a function that returns a string gave a Result that
\* holds the string and is Ok.
C29_Witness ==
    /\ last.op = "Result.mapErr" /\ last.fn = FnConst(Str(<<"b">>))
    /\ Truthy(Result_isErr(heap, last.self))
    /\ ReturnedNew
    /\ heap[Returned].val = Str(<<"b">>) /\ Truthy(Result_isOk(heap, Returned))

\* C30: the membership tests are total: x instanceof Ok, x instanceof Err,
\* x instanceof Some and x instanceof None raise nothing and are false for
\* every x that is not a wrapper of the family tested for: a primitive, null,
\* an object of another class, a wrapper of the other family.
C30_InstanceofTotal ==
    /\ (last.op \in {"instanceof Ok", "instanceof Err"} /\ ~IsResult(heap, last.arg)) =>
          ~last.threw /\ last.val = False
    /\ (last.op \in {"instanceof Some", "instanceof None"} /\ ~IsOption(heap, last.arg)) =>
          ~last.threw /\ last.val = False

====
